---- MODULE Spec2Model ----
(***************************************************************************)
(* src/cmd/sqsattr/sqsattr.go holds two programs.                          *)
(* sqsfill (second package clause): the bulk message sender.  The model    *)
(* follows main, fillSerially, fillConcurrent and fillSection (Spec,       *)
(* SpecPlan, SpecFair), genMessageBatch and genMessage (SpecGen) and       *)
(* normalizeRegion (SpecRegion).  sqsattr (first package clause): the      *)
(* attribute query, main (SpecAttr).  One goroutine is one process; a loop iteration of a   *)
(* goroutine is one step, because the goroutines share nothing but the     *)
(* unbuffered channel countCh and the queue handle.  The queue service is  *)
(* the environment: every SendMessageBatch call returns nil or an error.   *)
(***************************************************************************)
EXTENDS Integers, Sequences, FiniteSets, TLC

\* ---- program constants (const block, lines 99-105) ----
interval == 1000
sqsBatchSize == 10
defaultMsgTmpl == <<"M", "e", "s", "s", "a", "g", "e", "_", "B", "o", "d", "y">>
\* line 203: rand.Intn(randN)
randN == 1000

\* ---- bounds of the model ----
\* small values of the -c flag
MaxCount == 25
\* values of -c just above one interval: interval .. interval + MaxOver
MaxOver == 3
\* how many SendMessageBatch calls of one run may return an error
MaxFails == 3
\* values of -c for the scheduling loop alone
MaxPlanCount == 2500

\* clock readings of the generator: ClockStart .. ClockStart + MaxTick
MaxTick == 1
\* random suffixes of the generator: 0 .. MaxSuffix and randN - 1
MaxSuffix == 0
\* the largest batch asked of genMessageBatch on its own
MaxGenBatch == 2
\* the longest -q and -a lists of sqsattr
MaxList == 2
\* how often normalizeRegion is applied in a row
MaxNormalize == 3

RunCounts == (0 .. MaxCount) \cup (interval .. (interval + MaxOver))
PlanCounts == 1 .. MaxPlanCount

\* serialMode  the -serial flag (line 108)
\* count       the -c flag (line 109); fillSerially counts it down
\* pc          where the main goroutine is: "main", "fillSerially", "launch"
\*             (first loop of fillConcurrent), "collect" (second loop), "done"
\* total       the local total of fillSerially (line 128) or fillConcurrent
\*             (line 161)
\* workers, i  the locals of fillConcurrent (lines 153, 154, 162)
\* sections    the goroutines started, in order: id, msgCount, sent and the
\*             position "loop", "report" (blocked in reportCh <- ...), "done"
\* reports     the chunks received and the total printed with each (163-166)
\* calls       per caller, what the queue saw: the batch sizes handed to
\*             SendMessageBatch, the messages of the batches it accepted, the
\*             number of errors it returned, whether the first call failed
VARIABLES serialMode, count, pc, total, workers, i, sections, reports, calls

\* msgBodyTmpl the -b / -f template (line 116), a sequence of characters
\* queue       the queue handle init stores (lines 114, 249)
\* clock       the last reading of time.Now().UnixNano()
\* gens        the goroutines inside genMessageBatch: position, batchSize,
\*             msgs, the index of the next message to fill, buf
VARIABLES msgBodyTmpl, queue, clock, gens

\* sqsattr: queues, attrs (lines 54-55), the position of main and its loop
\* indexes, the lines printed, and the calls made to the service
VARIABLES queues, attrs, apc, qn, an, printed, lookups

\* sqsfill init: the -r flag, the variable region (line 112), and how often
\* normalizeRegion has been applied to it
VARIABLES regionFlag, region, normalized

fillVars == <<serialMode, count, pc, total, workers, i, sections, reports, calls>>
cfgVars == <<msgBodyTmpl, queue>>
genVars == <<clock, gens>>
attrVars == <<queues, attrs, apc, qn, an, printed, lookups>>
regionVars == <<regionFlag, region, normalized>>

vars == <<fillVars, cfgVars, genVars, attrVars, regionVars>>

\* everything fillSerially, fillConcurrent and fillSection leave alone
notFill == <<cfgVars, genVars, attrVars, regionVars>>

Templates == {defaultMsgTmpl, <<"x">>}
ClockStart == 9
Times == ClockStart .. (ClockStart + MaxTick)
Suffixes == (0 .. MaxSuffix) \cup {randN - 1}
\* two goroutines inside genMessageBatch at the same time
Gens == {1, 2}

\* line 189: make([]sqs.Message, batchSize)
ZeroMessage == [MessageId |-> <<>>, Body |-> <<>>]
MakeMsgsShort(batchSize) == [x \in 1 .. (batchSize - 1) |-> ZeroMessage]
MakeMsgs(batchSize) == [x \in 1 .. batchSize |-> ZeroMessage]

\* a program, or a part of one, that a specification does not run
GenIdle ==
    /\ clock = ClockStart
    /\ gens = [g \in Gens |->
                 [pc |-> "idle", batchSize |-> 0, msgs |-> <<>>, idx |-> 0, buf |-> <<>>]]

AttrIdle ==
    /\ queues = <<>>
    /\ attrs = <<>>
    /\ apc = "off"
    /\ qn = 0
    /\ an = 0
    /\ printed = <<>>
    /\ lookups = <<>>

RegionIdle ==
    /\ regionFlag = ""
    /\ region = ""
    /\ normalized = 0

\* ---- pure helpers ----

\* math.Ceil(float64(a) / float64(b)) converted to int, for b > 0
CeilDiv(a, b) == LET q == a \div b IN IF q * b = a THEN q ELSE q + 1

\* line 153: the number of goroutines fillConcurrent starts
WorkersFloor(c) == c \div interval
WorkersPlusOne(c) == c \div interval + 1
Workers(c) == CeilDiv(c, interval)

\* lines 155-158: the quota of the goroutine started in iteration idx
NumMsgs(c, idx) ==
    IF c - idx * interval < interval THEN c - idx * interval ELSE interval

\* line 159: the id handed to the goroutine started in iteration idx
WorkerId(idx) == idx + 1

\* lines 173-176: the batch size of one iteration of fillSection
BatchSizeSectionFixed(msgCount, sent) == sqsBatchSize
BatchSizeSectionUncapped(msgCount, sent) == msgCount - sent
BatchSizeSection(msgCount, sent) ==
    IF msgCount - sent < sqsBatchSize THEN msgCount - sent ELSE sqsBatchSize

\* lines 130-133: the batch size of one iteration of fillSerially
BatchSizeSerialTail(c) == IF c < sqsBatchSize THEN c ELSE sqsBatchSize
BatchSizeSerial(c) ==
    IF c % sqsBatchSize # 0 THEN c % sqsBatchSize ELSE sqsBatchSize

\* lines 187-196: genMessageBatch returns a slice of batchSize messages
LenBatch(batchSize) == Len(MakeMsgs(batchSize))

\* lines 172-183: the batch sizes fillSection(id, msgCount, ch) hands to the
\* queue, in order, from the point where its counter is sent
RECURSIVE SectionSizesFrom(_, _)
SectionSizesFrom(msgCount, sent) ==
    IF sent < msgCount
    THEN LET n == LenBatch(BatchSizeSection(msgCount, sent)) IN
         <<n>> \o SectionSizesFrom(msgCount, sent + n)
    ELSE <<>>

\* line 164: the aggregator adds the reported count to the total
AddChunkOnce(t, c) == IF t = 0 THEN c ELSE t
AddChunkReplace(t, c) == c
AddChunk(t, c) == t + c

\* line 162: the aggregator receives while i < workers
MoreReportsShort(idx, n) == idx < n - 1
MoreReportsLong(idx, n) == idx <= n
MoreReports(idx, n) == idx < n

\* callers of queue.SendMessageBatch: 0 is the main goroutine (fillSerially),
\* k >= 1 is the goroutine with id k
MaxWorkers == Workers(interval + MaxOver) + 1
Callers == 0 .. MaxWorkers

NoCalls == [sizes |-> <<>>, accepted |-> 0, errs |-> 0, firstErr |-> FALSE]

RECURSIVE SumErrs(_)
SumErrs(n) == IF n < 0 THEN 0 ELSE calls[n].errs + SumErrs(n - 1)
TotalErrs == SumErrs(MaxWorkers)

\* line 135 / line 178: one queue.SendMessageBatch(batch) call by caller c
\* with a batch of n messages, returning err (TRUE: an error)
Called(c, n, err) ==
    [calls EXCEPT ![c] =
        [sizes |-> Append(@.sizes, n),
         accepted |-> IF err THEN @.accepted ELSE @.accepted + n,
         errs |-> IF err THEN @.errs + 1 ELSE @.errs,
         firstErr |-> IF @.sizes = <<>> THEN err ELSE @.firstErr]]

SendResults == IF TotalErrs < MaxFails THEN BOOLEAN ELSE {FALSE}

\* ---- initial states ----

InitVars ==
    /\ pc = "main"
    /\ total = 0
    /\ workers = 0
    /\ i = 0
    /\ sections = <<>>
    /\ reports = <<>>
    /\ calls = [c \in Callers |-> NoCalls]

\* init (lines 213-254) has parsed the flags and stored the queue handle
CfgInit ==
    /\ msgBodyTmpl \in Templates
    /\ queue = "queue"

Init ==
    /\ serialMode \in BOOLEAN
    /\ count \in RunCounts
    /\ InitVars
    /\ CfgInit
    /\ GenIdle
    /\ AttrIdle
    /\ RegionIdle

\* ---- main, lines 119-125 ----

MainSerial ==
    /\ pc = "main"
    /\ serialMode
    /\ total' = count
    /\ pc' = "fillSerially"
    /\ UNCHANGED <<notFill, serialMode, count, workers, i, sections, reports, calls>>

MainConcurrent ==
    /\ pc = "main"
    /\ ~serialMode
    /\ workers' = Workers(count)
    /\ i' = 0
    /\ pc' = "launch"
    /\ UNCHANGED <<notFill, serialMode, count, total, sections, reports, calls>>

\* ---- fillSerially, lines 127-144 ----

SerialIter ==
    /\ pc = "fillSerially"
    /\ count > 0
    /\ LET batchSize == BatchSizeSerial(count) IN
       \E err \in SendResults :
          /\ calls' = Called(0, LenBatch(batchSize), err)
          /\ count' = count - LenBatch(batchSize)
    /\ UNCHANGED <<notFill, serialMode, pc, total, workers, i, sections, reports>>

SerialReturn ==
    /\ pc = "fillSerially"
    /\ ~(count > 0)
    /\ pc' = "done"
    /\ UNCHANGED <<notFill, serialMode, count, total, workers, i, sections, reports, calls>>

\* ---- fillConcurrent, lines 151-168 ----

Launch ==
    /\ pc = "launch"
    /\ i < workers
    /\ sections' = Append(sections,
           [id |-> WorkerId(i), msgCount |-> NumMsgs(count, i),
            sent |-> 0, pc |-> "loop"])
    /\ i' = i + 1
    /\ UNCHANGED <<notFill, serialMode, count, pc, total, workers, reports, calls>>

LaunchDone ==
    /\ pc = "launch"
    /\ ~(i < workers)
    /\ total' = 0
    /\ i' = 0
    /\ pc' = "collect"
    /\ UNCHANGED <<notFill, serialMode, count, workers, sections, reports, calls>>

\* chunk := <-countCh meets reportCh <- partial{id, sent} of goroutine k
Receive(k) ==
    /\ pc = "collect"
    /\ MoreReports(i, workers)
    /\ sections[k].pc = "report"
    /\ LET chunk == [id |-> sections[k].id, count |-> sections[k].sent] IN
          /\ total' = AddChunk(total, chunk.count)
          /\ reports' = Append(reports,
                 [id |-> chunk.id, count |-> chunk.count, total |-> total'])
    /\ i' = i + 1
    /\ sections' = [sections EXCEPT ![k].pc = "done"]
    /\ UNCHANGED <<notFill, serialMode, count, pc, workers, calls>>

CollectDone ==
    /\ pc = "collect"
    /\ ~MoreReports(i, workers)
    /\ pc' = "done"
    /\ UNCHANGED <<notFill, serialMode, count, total, workers, i, sections, reports, calls>>

\* ---- fillSection, lines 170-185 ----

SectionIterShared(k) ==
    /\ pc # "done"
    /\ sections[k].pc = "loop"
    /\ sections[k].sent < sections[k].msgCount
    /\ LET batchSize == BatchSizeSection(sections[k].msgCount, sections[k].sent) IN
       \E err \in SendResults :
          /\ calls' = Called(sections[k].id, LenBatch(batchSize), err)
          /\ sections' = [sections EXCEPT ![k].sent = @ + LenBatch(batchSize)]
          /\ count' = count - LenBatch(batchSize)
    /\ UNCHANGED <<notFill, serialMode, pc, total, workers, i, reports>>

SectionIter(k) ==
    /\ pc # "done"
    /\ sections[k].pc = "loop"
    /\ sections[k].sent < sections[k].msgCount
    /\ LET batchSize == BatchSizeSection(sections[k].msgCount, sections[k].sent) IN
       \E err \in SendResults :
          /\ calls' = Called(sections[k].id, LenBatch(batchSize), err)
          /\ sections' = [sections EXCEPT ![k].sent = @ + LenBatch(batchSize)]
    /\ UNCHANGED <<notFill, serialMode, count, pc, total, workers, i, reports>>

SectionExit(k) ==
    /\ pc # "done"
    /\ sections[k].pc = "loop"
    /\ ~(sections[k].sent < sections[k].msgCount)
    /\ sections' = [sections EXCEPT ![k].pc = "report"]
    /\ UNCHANGED <<notFill, serialMode, count, pc, total, workers, i, reports, calls>>

Section == \E k \in 1 .. Len(sections) : SectionIter(k) \/ SectionExit(k)

Collect == \E k \in 1 .. Len(sections) : Receive(k)

Next ==
    \/ MainSerial
    \/ MainConcurrent
    \/ SerialIter
    \/ SerialReturn
    \/ Launch
    \/ LaunchDone
    \/ Section
    \/ Collect
    \/ CollectDone

Spec == Init /\ [][Next]_vars

\* the Go scheduler runs every goroutine that can take a step, and every
\* SendMessageBatch call returns
SpecFair == Init /\ [][Next]_vars /\ WF_vars(Next)

\* ---- the scheduling loop alone: no goroutine has been scheduled yet ----

InitPlan ==
    /\ serialMode = FALSE
    /\ count \in PlanCounts
    /\ InitVars
    /\ CfgInit
    /\ GenIdle
    /\ AttrIdle
    /\ RegionIdle

NextPlan ==
    \/ MainConcurrent
    \/ Launch
    \/ LaunchDone

SpecPlan == InitPlan /\ [][NextPlan]_vars

\* ---- genMessageBatch and genMessage, lines 187-211 ----

\* strconv.FormatInt(n, 10) and strconv.Itoa(n) for n >= 0
DigitChars == <<"0", "1", "2", "3", "4", "5", "6", "7", "8", "9">>
RECURSIVE FormatInt(_)
FormatInt(n) ==
    IF n < 10 THEN <<DigitChars[n + 1]>>
    ELSE FormatInt(n \div 10) \o <<DigitChars[(n % 10) + 1]>>

\* bytes.Buffer: WriteString, WriteByte, Reset
WriteString(b, str) == b \o str
WriteByte(b, c) == b \o <<c>>
BufResetNone(b) == b
BufReset(b) == <<>>

\* lines 198-211: one genMessage(buf) call that reads the clock as t and
\* draws r; the message returned and the buffer after the deferred Reset
genMessage(b, t, r) ==
    LET b1 == WriteString(b, <<"I", "D", "_">>)
        b2 == WriteString(b1, FormatInt(t))
        b3 == WriteByte(b2, "_")
        b4 == WriteString(b3, FormatInt(r))
        mID == b4
        b5 == WriteByte(b4, " ")
        b6 == WriteString(b5, msgBodyTmpl)
    IN  [msg |-> [MessageId |-> mID, Body |-> b6], buf |-> BufReset(b6)]

\* lines 188-191: a goroutine enters genMessageBatch(batchSize)
GenBatchBegin(g) ==
    /\ gens[g].pc = "idle"
    /\ \E batchSize \in 1 .. MaxGenBatch :
          gens' = [gens EXCEPT ![g] =
                      [pc |-> "fill", batchSize |-> batchSize,
                       msgs |-> MakeMsgs(batchSize), idx |-> 1, buf |-> <<>>]]
    /\ UNCHANGED <<fillVars, cfgVars, attrVars, regionVars, clock>>

\* lines 192-194: msgs[i] = genMessage(buf)
GenMessage(g) ==
    /\ gens[g].pc = "fill"
    /\ gens[g].idx <= Len(gens[g].msgs)
    /\ \E t \in Times, r \in Suffixes :
          /\ t >= clock
          /\ clock' = t
          /\ LET res == genMessage(gens[g].buf, t, r) IN
                gens' = [gens EXCEPT ![g].msgs[gens[g].idx] = res.msg,
                                     ![g].buf = res.buf,
                                     ![g].idx = @ + 1]
    /\ UNCHANGED <<fillVars, cfgVars, attrVars, regionVars>>

\* line 195: return msgs
GenBatchReturn(g) ==
    /\ gens[g].pc = "fill"
    /\ ~(gens[g].idx <= Len(gens[g].msgs))
    /\ gens' = [gens EXCEPT ![g].pc = "returned"]
    /\ UNCHANGED <<fillVars, cfgVars, attrVars, regionVars, clock>>

InitGen ==
    /\ serialMode = FALSE
    /\ count = 0
    /\ InitVars
    /\ CfgInit
    /\ GenIdle
    /\ AttrIdle
    /\ RegionIdle

NextGen ==
    \/ \E g \in Gens : GenBatchBegin(g)
    \/ \E g \in Gens : GenMessage(g)
    \/ \E g \in Gens : GenBatchReturn(g)

SpecGen == InitGen /\ [][NextGen]_vars

\* ---- sqsattr main, lines 24-47 ----

QueueNames == {"message_queue", "q2"}
AttrNames == {"ApproximateNumberOfMessages", "RedrivePolicy"}

\* strings.Split (lines 54-55) returns at least one name
Lists(names) == UNION {[1 .. n -> names] : n \in 1 .. MaxList}

\* lines 29-33: s.GetQueue(qn) returns an error
GetQueueFail ==
    /\ apc = "queues"
    /\ qn <= Len(queues)
    /\ lookups' = Append(lookups, [op |-> "GetQueue", qi |-> qn, ai |-> 0, res |-> "error"])
    /\ printed' = Append(printed, [kind |-> "queue error", qi |-> qn, ai |-> 0])
    /\ qn' = qn + 1
    /\ UNCHANGED <<fillVars, cfgVars, genVars, regionVars, queues, attrs, apc, an>>

\* lines 29-34: s.GetQueue(qn) returns the queue
GetQueueOk ==
    /\ apc = "queues"
    /\ qn <= Len(queues)
    /\ lookups' = Append(lookups, [op |-> "GetQueue", qi |-> qn, ai |-> 0, res |-> "ok"])
    /\ apc' = "attrs"
    /\ an' = 1
    /\ UNCHANGED <<fillVars, cfgVars, genVars, regionVars, queues, attrs, qn, printed>>

\* lines 35-41: q.GetQueueAttributes(an) returns an error
GetAttrFail ==
    /\ apc = "attrs"
    /\ an <= Len(attrs)
    /\ lookups' = Append(lookups, [op |-> "GetQueueAttributes", qi |-> qn, ai |-> an, res |-> "error"])
    /\ printed' = Append(printed, [kind |-> "attribute error", qi |-> qn, ai |-> an])
    /\ an' = an + 1
    /\ UNCHANGED <<fillVars, cfgVars, genVars, regionVars, queues, attrs, apc, qn>>

\* lines 35-44: q.GetQueueAttributes(an) returns a response with at least one
\* attribute; a.Attributes[0] is printed
GetAttrOk ==
    /\ apc = "attrs"
    /\ an <= Len(attrs)
    /\ lookups' = Append(lookups, [op |-> "GetQueueAttributes", qi |-> qn, ai |-> an, res |-> "ok"])
    /\ printed' = Append(printed, [kind |-> "value", qi |-> qn, ai |-> an])
    /\ an' = an + 1
    /\ UNCHANGED <<fillVars, cfgVars, genVars, regionVars, queues, attrs, apc, qn>>

\* lines 35-44: q.GetQueueAttributes(an) returns no error and a response
\* without attributes (the queue has no value for that attribute);
\* a.Attributes[0] is an index out of range and the program panics
GetAttrEmpty ==
    /\ apc = "attrs"
    /\ an <= Len(attrs)
    /\ lookups' = Append(lookups, [op |-> "GetQueueAttributes", qi |-> qn, ai |-> an, res |-> "ok"])
    /\ apc' = "panic"
    /\ UNCHANGED <<fillVars, cfgVars, genVars, regionVars, queues, attrs, qn, an, printed>>

\* lines 34-45: the inner loop ends, the outer loop goes on
AttrsEnd ==
    /\ apc = "attrs"
    /\ ~(an <= Len(attrs))
    /\ apc' = "queues"
    /\ qn' = qn + 1
    /\ UNCHANGED <<fillVars, cfgVars, genVars, regionVars, queues, attrs, an, printed, lookups>>

\* lines 28-47: the outer loop ends, main returns
AttrMainReturn ==
    /\ apc = "queues"
    /\ ~(qn <= Len(queues))
    /\ apc' = "done"
    /\ UNCHANGED <<fillVars, cfgVars, genVars, regionVars, queues, attrs, qn, an, printed, lookups>>

\* init (lines 49-56) has split the lists, GetAuth has succeeded (25-27)
InitAttr ==
    /\ queues \in Lists(QueueNames)
    /\ attrs \in Lists(AttrNames)
    /\ apc = "queues"
    /\ qn = 1
    /\ an = 0
    /\ printed = <<>>
    /\ lookups = <<>>
    /\ serialMode = FALSE
    /\ count = 0
    /\ InitVars
    /\ msgBodyTmpl = defaultMsgTmpl
    /\ queue = "queue"
    /\ GenIdle
    /\ RegionIdle

NextAttr ==
    \/ GetQueueFail
    \/ GetQueueOk
    \/ GetAttrFail
    \/ GetAttrOk
    \/ GetAttrEmpty
    \/ AttrsEnd
    \/ AttrMainReturn

SpecAttr == InitAttr /\ [][NextAttr]_vars

\* ---- normalizeRegion, lines 256-271, called by init at line 243 ----

normalizeRegionChained(r) ==
    CASE r = "use01" \/ r = "use" -> "us-east-1"
      [] r = "usw01" \/ r = "usw" \/ r = "usw1" -> "us-west-1"
      [] r = "usw02" -> "us-west-2"
      [] r = "usw2" -> "usw02"
      [] r = "apn01" \/ r = "apn" -> "ap-northeast-1"
      [] r = "sae01" \/ r = "sae" -> "sa-east-1"
      [] OTHER -> r
normalizeRegion(r) ==
    CASE r = "use01" \/ r = "use" -> "us-east-1"
      [] r = "usw01" \/ r = "usw" \/ r = "usw1" -> "us-west-1"
      [] r = "usw02" \/ r = "usw2" -> "us-west-2"
      [] r = "apn01" \/ r = "apn" -> "ap-northeast-1"
      [] r = "sae01" \/ r = "sae" -> "sa-east-1"
      [] OTHER -> r

\* values of the -r flag: the aliases, the names they stand for, and strings
\* that are neither
RegionInputs ==
    {"use01", "use", "usw01", "usw", "usw1", "usw02", "usw2", "apn01", "apn",
     "sae01", "sae",
     "us-east-1", "us-west-1", "us-west-2", "ap-northeast-1", "sa-east-1",
     "use1", "use02", "apn1", "sae1", "usw03", "USE", "Usw01", "use01 ",
     "us-east-2", "eu-west-1", "euw01", "euw", "ap-southeast-1", "x"}

\* line 243: region = normalizeRegion(region)
Normalize ==
    /\ normalized < MaxNormalize
    /\ region' = normalizeRegion(region)
    /\ normalized' = normalized + 1
    /\ UNCHANGED <<fillVars, cfgVars, genVars, attrVars, regionFlag>>

\* init has parsed -r (line 216) and found it not empty (line 227)
InitRegion ==
    /\ regionFlag \in RegionInputs
    /\ region = regionFlag
    /\ normalized = 0
    /\ serialMode = FALSE
    /\ count = 0
    /\ InitVars
    /\ msgBodyTmpl = defaultMsgTmpl
    /\ queue = "queue"
    /\ GenIdle
    /\ AttrIdle

NextRegion == Normalize

SpecRegion == InitRegion /\ [][NextRegion]_vars

\* ---- derived quantities used by the properties ----

RECURSIVE SumSeq(_)
SumSeq(s) == IF s = <<>> THEN 0 ELSE Head(s) + SumSeq(Tail(s))

RECURSIVE SumQuotas(_)
SumQuotas(n) == IF n = 0 THEN 0 ELSE sections[n].msgCount + SumQuotas(n - 1)

RECURSIVE SumAccepted(_)
SumAccepted(n) == IF n < 0 THEN 0 ELSE calls[n].accepted + SumAccepted(n - 1)

Tens(n) == [x \in 1 .. n |-> sqsBatchSize]

Launched == 1 .. Len(sections)
Finished(k) == sections[k].pc \in {"report", "done"}
SentTo(k) == calls[sections[k].id]

\* C1: in concurrent mode with count > 0 the number of goroutines started is
\* ceil(count / interval), every goroutine but the last gets a quota of
\* interval, the last gets count - idx * interval, and the quotas add up to
\* count; 2500 gives the quotas 1000, 1000, 500.
C1_PartitionQuotas ==
    (~serialMode /\ pc # "main" /\ count > 0) =>
        /\ (workers - 1) * interval < count
        /\ count <= workers * interval
        /\ Len(sections) <= workers
        /\ \A k \in Launched :
              /\ k < workers => sections[k].msgCount = interval
              /\ k = workers => sections[k].msgCount = count - (k - 1) * interval
              /\ sections[k].msgCount > 0
              /\ sections[k].msgCount <= interval
        /\ pc \in {"collect", "done"} =>
              /\ Len(sections) = workers
              /\ SumQuotas(workers) = count
        /\ (pc = "collect" /\ count = 2500) =>
              [k \in 1 .. 3 |-> sections[k].msgCount] = <<1000, 1000, 500>>

C1_Witness ==
    /\ pc = "collect"
    /\ count = 2500
    /\ Len(sections) = 3
    /\ sections[3].msgCount = 500

\* C2: the batches a goroutine has handed to the queue when it leaves its
\* loop add up to its quota, and no batch has more than sqsBatchSize messages.
C2_BatchesSumToQuota ==
    \A k \in Launched :
        /\ \A n \in 1 .. Len(SentTo(k).sizes) :
              /\ SentTo(k).sizes[n] <= sqsBatchSize
              /\ SentTo(k).sizes[n] >= 1
        /\ SumSeq(SentTo(k).sizes) <= sections[k].msgCount
        /\ Finished(k) => SumSeq(SentTo(k).sizes) = sections[k].msgCount

C2_Witness ==
    \E k \in Launched :
        /\ sections[k].pc = "done"
        /\ sections[k].msgCount = 25
        /\ SentTo(k).sizes = <<10, 10, 5>>

\* C3 (as claimed): a SendMessageBatch call that returns an error leaves the
\* caller's progress counter unchanged, and the next batch has the size of
\* the failed one.
C3_FailedSendKeepsCounter ==
    [][/\ \A k \in Launched :
             SentTo(k).errs' > SentTo(k).errs =>
                /\ sections'[k].sent = sections[k].sent
                /\ BatchSizeSection(sections'[k].msgCount, sections'[k].sent)
                      = SentTo(k).sizes'[Len(SentTo(k).sizes')]
       /\ calls'[0].errs > calls[0].errs => count' = count]_vars

\* C4 (as claimed): when the concurrent run returns, the total equals the
\* number of messages in the batches the queue accepted.
C4_TotalIsAccepted ==
    (~serialMode /\ pc = "done") => total = SumAccepted(MaxWorkers)

\* C5: the aggregator returns only after exactly workers reports, one from
\* each goroutine started, ids 1..workers in any order; no goroutine reports
\* twice and no report is lost.
C5_OneReportPerWorker ==
    ~serialMode =>
        /\ \A n, m \in 1 .. Len(reports) :
              reports[n].id = reports[m].id => n = m
        /\ \A k \in Launched :
              sections[k].pc = "done" <=>
                 \E n \in 1 .. Len(reports) : reports[n].id = sections[k].id
        /\ pc \in {"collect", "done"} => i = Len(reports)
        /\ pc = "done" =>
              /\ Len(reports) = workers
              /\ {reports[n].id : n \in 1 .. Len(reports)} = 1 .. workers
              /\ \A k \in Launched : sections[k].pc = "done"

C5_Witness ==
    /\ pc = "done"
    /\ workers = 2
    /\ Len(reports) = 2
    /\ reports[1].id = 2
    /\ reports[2].id = 1

\* C6: when no send fails, the serial run ends with total - count equal to
\* the requested count and the concurrent run ends with a total equal to the
\* requested count, so both modes end with the same number.
C6_SameFinalCount ==
    (pc = "done" /\ TotalErrs = 0) =>
        /\ serialMode =>
              /\ total \in RunCounts
              /\ total - count = total
              /\ total - count = SumAccepted(MaxWorkers)
        /\ ~serialMode =>
              /\ total = count
              /\ total = SumAccepted(MaxWorkers)

C6_Witness ==
    /\ pc = "done"
    /\ ~serialMode
    /\ TotalErrs = 0
    /\ workers = 2
    /\ total = interval + MaxOver

\* C7 (as claimed): the serial run hands the queue the same sequence of batch
\* sizes as one fillSection run with the whole count.
C7_SerialSameAsSection ==
    (serialMode /\ pc = "done") =>
        calls[0].sizes = SectionSizesFrom(total, 0)

\* C7 (amended): the serial run hands the queue the short batch first: count
\* mod sqsBatchSize messages when that is not zero, then batches of
\* sqsBatchSize; 25 gives 5, 10, 10.  A fillSection run hands it the short
\* batch last.
C7_SerialShortBatchFirst ==
    /\ (serialMode /\ pc = "done") =>
          /\ calls[0].sizes =
                IF total % sqsBatchSize # 0
                THEN <<total % sqsBatchSize>> \o Tens(total \div sqsBatchSize)
                ELSE Tens(total \div sqsBatchSize)
          /\ \A n \in 1 .. Len(calls[0].sizes) :
                calls[0].sizes[n] =
                   SectionSizesFrom(total, 0)[Len(calls[0].sizes) + 1 - n]
          /\ Len(calls[0].sizes) = Len(SectionSizesFrom(total, 0))
          /\ total = 25 => calls[0].sizes = <<5, 10, 10>>
    /\ \A k \in Launched :
          Finished(k) => SentTo(k).sizes = SectionSizesFrom(sections[k].msgCount, 0)

C7_Witness ==
    /\ serialMode
    /\ pc = "done"
    /\ total = 25
    /\ calls[0].sizes = <<5, 10, 10>>

\* C8: every report carries the id of the goroutine that sent it and a count
\* equal to that goroutine's quota, also when the goroutine's first send
\* failed and all its later sends succeeded.
C8_ReportCarriesQuota ==
    /\ \A n \in 1 .. Len(reports) :
          \E k \in Launched :
             /\ sections[k].id = reports[n].id
             /\ sections[k].id = k
             /\ reports[n].count = sections[k].msgCount
    /\ \A k \in Launched :
          Finished(k) => sections[k].sent = sections[k].msgCount

C8_Witness ==
    \E n \in 1 .. Len(reports) :
        /\ calls[reports[n].id].firstErr
        /\ calls[reports[n].id].errs = 1
        /\ Len(calls[reports[n].id].sizes) = 3
        /\ reports[n].count = 25
        /\ sections[reports[n].id].msgCount = 25

\* C9 (as claimed): a goroutine with a positive quota whose sends all fail
\* never leaves its loop and never reports, so the aggregator never returns.
C9_AllFailNeverReports ==
    \A k \in Launched :
        (sections[k].msgCount > 0 /\ SentTo(k).accepted = 0) =>
            /\ sections[k].pc = "loop"
            /\ pc # "done"

\* C10: with a count of 0 the concurrent run starts no goroutine, calls the
\* queue never, waits for no report and returns with a total of 0; the
\* serial run calls the queue never and returns.
C10_ZeroCount ==
    /\ (~serialMode /\ count = 0) =>
          /\ workers = 0
          /\ sections = <<>>
          /\ reports = <<>>
          /\ total = 0
          /\ \A c \in Callers : calls[c].sizes = <<>>
          /\ pc = "collect" => ~MoreReports(i, workers)
          /\ pc \in {"main", "launch", "collect", "done"}
    /\ (serialMode /\ pc # "main" /\ total = 0) =>
          /\ count = 0
          /\ \A c \in Callers : calls[c].sizes = <<>>
          /\ pc \in {"fillSerially", "done"}

C10_Witness ==
    /\ ~serialMode
    /\ count = 0
    /\ pc = "done"
    /\ total = 0
    /\ workers = 0

\* the messages genMessage has returned so far, as <<goroutine, index>>
Generated == {ga \in Gens \X (1 .. MaxGenBatch) : ga[2] < gens[ga[1]].idx}
MsgOf(ga) == gens[ga[1]].msgs[ga[2]]

\* C11 (as claimed): no two messages generated in one run, by one goroutine
\* or by two, carry the same id, and no two bodies are the same, whatever
\* the clock readings and random suffixes.
C11_IdsUnique ==
    \A ga, gb \in Generated :
        ga # gb =>
           /\ MsgOf(ga).MessageId # MsgOf(gb).MessageId
           /\ MsgOf(ga).Body # MsgOf(gb).Body

\* C16: within one batch the buffer is empty at the start of every
\* genMessage call, every body is the message's own id, a space and the
\* template, and a message already returned is not changed by later calls.
C16_BufferEmptyBodyOwnId ==
    /\ [](\A g \in Gens :
            /\ gens[g].pc = "fill" => gens[g].buf = <<>>
            /\ \A a \in 1 .. Len(gens[g].msgs) :
                  a < gens[g].idx =>
                     /\ gens[g].msgs[a].Body =
                           gens[g].msgs[a].MessageId \o <<" ">> \o msgBodyTmpl
                     /\ \E t \in Times, r \in Suffixes :
                           gens[g].msgs[a].MessageId =
                              <<"I", "D", "_">> \o FormatInt(t) \o <<"_">> \o FormatInt(r)
                     /\ \A n \in 1 .. Len(gens[g].msgs[a].MessageId) :
                           gens[g].msgs[a].MessageId[n] # " ")
    /\ [][\A g \in Gens :
            \A a \in 1 .. Len(gens[g].msgs) :
               a < gens[g].idx => gens'[g].msgs[a] = gens[g].msgs[a]]_vars

C16_Witness ==
    \E g \in Gens :
        /\ gens[g].pc = "returned"
        /\ gens[g].batchSize = 2
        /\ gens[g].msgs[1].MessageId =
              <<"I", "D", "_">> \o FormatInt(ClockStart) \o <<"_", "0">>
        /\ gens[g].msgs[2].MessageId =
              <<"I", "D", "_">> \o FormatInt(ClockStart + 1) \o <<"_", "9", "9", "9">>
        /\ gens[g].msgs[2].Body =
              <<"I", "D", "_">> \o FormatInt(ClockStart + 1)
                 \o <<"_", "9", "9", "9", " ", "x">>

\* C12: in concurrent mode, when every send returns and scheduling is fair,
\* the run terminates: every goroutine started completes its channel send,
\* the aggregator returns, and no goroutine is left blocked.
C12_RunTerminates ==
    ~serialMode =>
        <>(/\ pc = "done"
           /\ Len(sections) = workers
           /\ \A k \in Launched : sections[k].pc = "done")

C12_Witness ==
    /\ ~serialMode
    /\ pc = "done"
    /\ workers = 2
    /\ TotalErrs = MaxFails
    /\ \A k \in Launched : sections[k].pc = "done"

\* C13: the total printed with each report is the sum of the counts of the
\* reports received so far, it never decreases, and with no failed send the
\* last one equals count.
C13_RunningTotal ==
    ~serialMode =>
        /\ \A n \in 1 .. Len(reports) :
              /\ reports[n].total =
                    SumSeq([m \in 1 .. n |-> reports[m].count])
              /\ n > 1 => reports[n].total >= reports[n - 1].total
              /\ reports[n].count >= 0
        /\ pc \in {"collect", "done"} =>
              total = (IF reports = <<>> THEN 0 ELSE reports[Len(reports)].total)
        /\ (pc = "done" /\ TotalErrs = 0 /\ workers > 0) =>
              reports[Len(reports)].total = count

C13_Witness ==
    /\ ~serialMode
    /\ pc = "done"
    /\ TotalErrs = 0
    /\ Len(reports) = 2
    /\ reports[1].total = MaxOver
    /\ reports[2].total = interval + MaxOver

\* C14: in both modes every call of genMessageBatch asks for 1..sqsBatchSize
\* messages and returns exactly that many, so the queue is never handed an
\* empty batch or one of more than sqsBatchSize messages.
C14_BatchSizeInRange ==
    /\ [](\A c \in Callers :
            \A n \in 1 .. Len(calls[c].sizes) :
               calls[c].sizes[n] \in 1 .. sqsBatchSize)
    /\ [][\A c \in Callers :
            Len(calls'[c].sizes) > Len(calls[c].sizes) =>
               LET requested ==
                      IF c = 0 THEN BatchSizeSerial(count)
                      ELSE BatchSizeSection(sections[c].msgCount, sections[c].sent)
               IN  /\ requested \in 1 .. sqsBatchSize
                   /\ Len(calls'[c].sizes) = Len(calls[c].sizes) + 1
                   /\ calls'[c].sizes[Len(calls'[c].sizes)] = requested]_vars

C14_Witness ==
    /\ serialMode
    /\ pc = "done"
    /\ total = interval + MaxOver
    /\ Len(calls[0].sizes) = (interval \div sqsBatchSize) + 1
    /\ calls[0].sizes[1] = MaxOver
    /\ calls[0].sizes[2] = sqsBatchSize

IsValue(line) == line.kind = "value"
IsFetched(call) == call.op = "GetQueueAttributes" /\ call.res = "ok"
IsQueueCall(call) == call.op = "GetQueue"
PairOf(rec) == <<rec.qi, rec.ai>>
PairsOf(recs) == [n \in 1 .. Len(recs) |-> PairOf(recs[n])]
Before(p, q) == p[1] < q[1] \/ (p[1] = q[1] /\ p[2] < q[2])
AttrStopped == apc \notin {"queues", "attrs"}

\* C17 (as claimed): a failed queue lookup skips that queue only and a failed
\* attribute fetch skips that attribute only; every other queue and attribute
\* is processed in list order, and a value is printed for exactly the pairs
\* whose queue lookup and attribute fetch both succeeded.
C17_ErrorsSkipOnlyOne ==
    /\ PairsOf(SelectSeq(printed, IsValue)) = PairsOf(SelectSeq(lookups, IsFetched))
    /\ \A m, n \in 1 .. Len(lookups) :
          m < n => Before(PairOf(lookups[m]), PairOf(lookups[n]))
    /\ AttrStopped =>
          /\ PairsOf(SelectSeq(lookups, IsQueueCall)) =
                [n \in 1 .. Len(queues) |-> <<n, 0>>]
          /\ \A n \in 1 .. Len(lookups) :
                (IsQueueCall(lookups[n]) /\ lookups[n].res = "ok") =>
                   \A a \in 1 .. Len(attrs) :
                      \E m \in 1 .. Len(lookups) :
                         /\ lookups[m].op = "GetQueueAttributes"
                         /\ PairOf(lookups[m]) = <<lookups[n].qi, a>>

\* the aliases and the names they stand for
AliasTable ==
    [use01 |-> "us-east-1", use |-> "us-east-1",
     usw01 |-> "us-west-1", usw |-> "us-west-1", usw1 |-> "us-west-1",
     usw02 |-> "us-west-2", usw2 |-> "us-west-2",
     apn01 |-> "ap-northeast-1", apn |-> "ap-northeast-1",
     sae01 |-> "sa-east-1", sae |-> "sa-east-1"]

\* C18: normalizeRegion is idempotent: once applied, applying it again
\* changes nothing; every alias maps to a name that is not an alias, and a
\* string that is no alias comes back unchanged.
C18_NormalizeIdempotent ==
    /\ [](normalized >= 1 =>
            /\ regionFlag \in DOMAIN AliasTable => region = AliasTable[regionFlag]
            /\ regionFlag \notin DOMAIN AliasTable => region = regionFlag
            /\ region \notin DOMAIN AliasTable)
    /\ [][normalized >= 1 => region' = region]_vars

C18_Witness ==
    /\ normalized = 2
    /\ regionFlag = "usw2"
    /\ region = "us-west-2"

TypeOK ==
    /\ serialMode \in BOOLEAN
    /\ count \in Int
    /\ pc \in {"main", "fillSerially", "launch", "collect", "done"}
    /\ total \in Int
    /\ workers \in Int
    /\ i \in Nat
    /\ \A k \in 1 .. Len(sections) :
          sections[k].pc \in {"loop", "report", "done"}
====
